---- MODULE Spec2Model ----
(***************************************************************************)
(* A model of the request path of iron (src/src/iron.rs,                   *)
(* src/src/request/mod.rs): the closure Iron::http hands to hyper's        *)
(* service_fn, Request::from_http, and the response that closure returns   *)
(* to the transport.                                                       *)
(*                                                                         *)
(* A string the code builds or parses is a sequence of tokens, so that     *)
(* rendering a Uri (req.uri().to_string()) and parsing the result          *)
(* (Url::parse) are two different computations.                            *)
(***************************************************************************)
EXTENDS Integers, Sequences, FiniteSets, TLC

\* ------------------------------------------------------------------ bounds

\* The number of requests the transport delivers in one behaviour.
MaxRequests == 2

\* The number of context operations of a handler that are remembered.
MaxHist == 2

\* The connections that are served concurrently.
Conns == {"c1", "c2"}

\* ------------------------------------------------------------------- state

VARIABLES
    addr,       \* the SocketAddr passed to Iron::http (NoAddr before the call)
    phase,      \* per connection: where its request is in the closure
    raw,        \* per connection: the HttpRequest the transport delivered
    made,       \* per connection: the result of Request::from_http
    req,        \* per connection: the Request the closure holds (let mut req)
    hres,       \* per connection: what self.handler.handle returned
    calls,      \* per connection: invocations of the handler for this request
    out,        \* per connection: the response the closure returns
    sent,       \* per connection: responses handed to the transport
    logged,     \* per connection: the error! records emitted for this request
    accepted,   \* requests delivered so far
    timeouts,   \* Iron::timeouts
    hist        \* the context operations a handler has made on its request

vars == <<addr, phase, raw, made, req, hres, calls, out, sent, logged,
          accepted, timeouts, hist>>

\* ------------------------------------------------------- values of the code

None == "none"

\* http::Version, ordered as the code compares it (v < HttpVersion::Http11).
Http10 == 10
Http11 == 11
Versions == {Http10, Http11}

Methods == {"GET", "POST"}

\* _Protocol and Protocol::name.
Protocol_Http == "Http"
Protocol_Https == "Https"

Protocol_name(p) == IF p = Protocol_Http THEN "http" ELSE "https"

\* The SocketAddr the server is bound to: V4 or V6.
LocalAddrs ==
    { [family |-> "V4", ip |-> "127.0.0.1", port |-> "3000"],
      [family |-> "V6", ip |-> "::1", port |-> "3000"] }

NoAddr == [family |-> None, ip |-> None, port |-> None]

\* The typed Host header of the raw request: absent, or hostname and
\* optional port.
NoHost == [hostname |-> None, port |-> None]

HostHeaders ==
    { NoHost,
      [hostname |-> "example.com", port |-> "8080"] }

\* hyper's Uri, in the four request-target forms of HTTP/1.
\* An absent component is None; an empty path is "".
AbsoluteUris ==
    { [form |-> "absolute", scheme |-> "http", host |-> "www.rust-lang.org",
       port |-> None, path |-> "/a", query |-> None],
      [form |-> "absolute", scheme |-> "HTTPS", host |-> "www.rust-lang.org",
       port |-> "3000", path |-> "", query |-> "q=1"],
      [form |-> "absolute", scheme |-> "foo", host |-> "www.rust-lang.org",
       port |-> None, path |-> "/a", query |-> None] }

AbsolutePaths ==
    { [form |-> "origin", scheme |-> None, host |-> None,
       port |-> None, path |-> "/a", query |-> None] }

AsteriskUri ==
    [form |-> "asterisk", scheme |-> None, host |-> None,
     port |-> None, path |-> "*", query |-> None]

AuthorityUris ==
    { [form |-> "authority", scheme |-> None, host |-> "example.com",
       port |-> "8080", path |-> "", query |-> None] }

Uris == AbsoluteUris \cup AbsolutePaths \cup {AsteriskUri} \cup AuthorityUris

\* HttpRequest<Body>: what the transport hands to the service closure.
RawRequests ==
    [uri : Uris, method : Methods, version : Versions, host : HostHeaders]

NoRaw == [uri |-> AsteriskUri, method |-> None, version |-> 0, host |-> NoHost]

\* ------------------------------------------------------ Uri to string, Url

\* http::Uri's Display, as req.uri().to_string() uses it: the scheme and
\* "://", the authority, the path ("/" for an empty path of a Uri with a
\* scheme), "?" and the query.
Uri_path(u) ==
    IF u.path = "" /\ u.scheme # None THEN "/" ELSE u.path

Uri_to_string(u) ==
    (IF u.scheme # None THEN <<u.scheme, "://">> ELSE << >>)
    \o (IF u.host # None
        THEN <<u.host>> \o (IF u.port # None THEN <<":", u.port>> ELSE << >>)
        ELSE << >>)
    \o (IF Uri_path(u) # "" THEN <<Uri_path(u)>> ELSE << >>)
    \o (IF u.query # None THEN <<"?", u.query>> ELSE << >>)

\* The schemes Url knows a default port for.
SpecialSchemes == {"http", "https", "ftp", "ws", "wss"}

to_ascii_lowercase(s) ==
    CASE s = "HTTP" -> "http"
      [] s = "HTTPS" -> "https"
      [] OTHER -> s

IsPathToken(t) == t \in {"/", "/a"}

NoUrl == [scheme |-> None, host |-> None, port |-> None,
          path |-> None, query |-> None]

UrlOk(u) == [ok |-> TRUE, url |-> u, err |-> None]
UrlErr(e) == [ok |-> FALSE, url |-> NoUrl, err |-> e]

\* Url::parse (src/request/url.rs): a URL has a scheme and a host, so a string
\* without "scheme://" does not parse; the scheme is lower-cased; a hierarchical
\* URL has path "/" when the string gives none. A scheme without a known
\* default port ("foo") is the parse failure an absolute URI can have.
RECURSIVE ParseRest(_, _)
ParseRest(s, u) ==
    IF s = << >> THEN UrlOk(u)
    ELSE IF s[1] = ":" /\ Len(s) >= 2 /\ u.port = None /\ u.path = "/"
              /\ u.query = None
         THEN ParseRest(SubSeq(s, 3, Len(s)), [u EXCEPT !.port = s[2]])
    ELSE IF IsPathToken(s[1]) /\ u.query = None
         THEN ParseRest(Tail(s), [u EXCEPT !.path = s[1]])
    ELSE IF s[1] = "?" /\ Len(s) = 2
         THEN UrlOk([u EXCEPT !.query = s[2]])
    ELSE UrlErr("invalid URL")

Url_parse(s) ==
    IF Len(s) >= 3 /\ s[2] = "://"
    THEN IF to_ascii_lowercase(s[1]) \in SpecialSchemes
         THEN ParseRest(SubSeq(s, 4, Len(s)),
                        [scheme |-> to_ascii_lowercase(s[1]), host |-> s[3],
                         port |-> None, path |-> "/", query |-> None])
         ELSE UrlErr("Invalid special scheme")
    ELSE IF Len(s) = 3 /\ s[2] = ":"
    THEN UrlErr("Not a special scheme")
    ELSE UrlErr("relative URL without a base")

\* ------------------------------------------------------- Request::from_http

\* The error strings of the resolver's branches for a missing Host header
\* and for a request target that is neither a URI nor a path.
MissingHost == "No host specified in request"
UnsupportedTarget == "Unsupported request URI"

\* TypeMap::new(): the empty Extensible Context, a set of <<type, value>>.
TypeMap_new == {}

\* The types and values middleware stores in a context.
ExtTypes == {"T1", "T2"}
ExtValues == {"a", "b"}

\* TypeMap::insert, get and remove: keyed by the type alone.
TypeMap_insert(m, t, v) == {p \in m : p[1] # t} \cup {<<t, v>>}

TypeMap_get(m, t) ==
    IF \E p \in m : p[1] = t THEN (CHOOSE p \in m : p[1] = t)[2] ELSE None

TypeMap_remove(m, t) == {p \in m : p[1] # t}

NoRequest ==
    [url |-> NoUrl, local_addr |-> NoAddr, headers |-> NoHost, method |-> None,
     version |-> 0, extensions |-> TypeMap_new]

\* extensions_mut() handing out a copy of the TypeMap: the write is lost.
extensions_mut_copy(q, m) == q

\* impl Extensible for Request: extensions() reads the request's own
\* TypeMap, extensions_mut() gives it for writing.
extensions(q) == q.extensions

extensions_mut(q, m) == [q EXCEPT !.extensions = m]

\* One context operation of a handler on its request: set<T>(v), get<T>()
\* or remove<T>(), through the Extensible accessors.
CtxOps ==
    [kind : {"set"}, type : ExtTypes, value : ExtValues]
    \cup [kind : {"get", "remove"}, type : ExtTypes, value : {None}]

CtxApply(q, op) ==
    CASE op.kind = "set" ->
           extensions_mut(q, TypeMap_insert(extensions(q), op.type, op.value))
      [] op.kind = "remove" ->
           extensions_mut(q, TypeMap_remove(extensions(q), op.type))
      [] OTHER -> q

\* What get<T>() and remove<T>() return; set<T>(v) returns nothing.
CtxResult(q, op) ==
    IF op.kind = "set" THEN None ELSE TypeMap_get(extensions(q), op.type)

\* from_http preferring the Host header to the request target whenever the
\* header is present, whatever the target's form.
from_http_host_first(r, local_addr, protocol) ==
    LET str == IF r.host # NoHost
               THEN <<Protocol_name(protocol), "://", r.host.hostname>>
                    \o (IF r.host.port # None
                        THEN <<":", r.host.port>> ELSE << >>)
                    \o (IF Uri_path(r.uri) \in {"", "*"}
                        THEN << >> ELSE <<Uri_path(r.uri)>>)
               ELSE Uri_to_string(r.uri)
        parsed == Url_parse(str)
    IN  IF parsed.ok
        THEN [ok |-> TRUE, err |-> None,
              req |-> [url |-> parsed.url,
                       local_addr |-> local_addr,
                       headers |-> r.host,
                       method |-> r.method,
                       extensions |-> TypeMap_new,
                       version |-> r.version]]
        ELSE [ok |-> FALSE, err |-> parsed.err, req |-> NoRequest]

\* from_http taking its TypeMap from a store shared by all requests in
\* flight instead of a new one.
from_http_shared_ctx(r, local_addr, protocol) ==
    LET parsed == Url_parse(Uri_to_string(r.uri))
    IN  IF parsed.ok
        THEN [ok |-> TRUE, err |-> None,
              req |-> [url |-> parsed.url,
                       local_addr |-> local_addr,
                       headers |-> r.host,
                       method |-> r.method,
                       extensions |-> UNION {req[d].extensions : d \in Conns},
                       version |-> r.version]]
        ELSE [ok |-> FALSE, err |-> parsed.err, req |-> NoRequest]

\* Request::from_http: the Url is parsed from the rendered request target
\* alone; a parse error is returned as the error; otherwise the envelope
\* takes the raw request's headers, method and version, the local address,
\* and an empty TypeMap.
from_http(r, local_addr, protocol) ==
    LET parsed == Url_parse(Uri_to_string(r.uri))
    IN  IF parsed.ok
        THEN [ok |-> TRUE, err |-> None,
              req |-> [url |-> parsed.url,
                       local_addr |-> local_addr,
                       headers |-> r.host,
                       method |-> r.method,
                       extensions |-> TypeMap_new,
                       version |-> r.version]]
        ELSE [ok |-> FALSE, err |-> parsed.err, req |-> NoRequest]

\* Debug for Request leaving the method out.
Request_fmt_no_method(q) ==
    [url |-> q.url, method |-> None, local_addr |-> q.local_addr]

\* impl Debug for Request: url, method and local_addr.
Request_fmt(q) ==
    [url |-> q.url, method |-> q.method, local_addr |-> q.local_addr]

NoDebug == [url |-> NoUrl, method |-> None, local_addr |-> NoAddr]

\* ---------------------------------------------------------------- responses

Status_OK == 200
Status_BAD_REQUEST == 400

EmptyBody == ""

\* HttpResponse::new(body): status OK, no headers, the body given.
HttpResponse_new(body) ==
    [status |-> Status_OK, headers |-> {}, body |-> body]

NoResponse == [status |-> 0, headers |-> {}, body |-> None]

\* bad_request() without the assignment to status_mut().
bad_request_status_unset == HttpResponse_new(EmptyBody)

\* bad_request(): an empty-bodied response with status BAD_REQUEST.
bad_request ==
    [HttpResponse_new(EmptyBody) EXCEPT !.status = Status_BAD_REQUEST]

\* What a Handler may return from handle(&mut req): Ok(Response), or
\* Err(IronError {error, response}).
HandlerResponses ==
    { [status |-> 404, headers |-> {<<"Content-Type", "text/plain">>},
       body |-> "not found"],
      [status |-> 503, headers |-> {}, body |-> "unavailable"] }

HandlerResults ==
    { [ok |-> TRUE, error |-> None, response |-> HandlerResponses_r]
        : HandlerResponses_r \in
            {x \in HandlerResponses : x.status = 404} }
    \cup
    { [ok |-> FALSE, error |-> "HandlerError", response |-> HandlerResponses_r]
        : HandlerResponses_r \in {x \in HandlerResponses : x.status = 503} }

NoResult == [ok |-> FALSE, error |-> None, response |-> NoResponse]

\* ------------------------------------------------------------- Iron::http

Some(secs) == [some |-> TRUE, secs |-> secs]

\* Timeouts with the read and write durations exchanged.
Timeouts_swapped ==
    [keep_alive |-> Some(5), read |-> Some(1), write |-> Some(30)]

\* Timeouts::default(): keep-alive 5 s, read 30 s, write 1 s, each Some.
KeepAliveSecs == 5
ReadSecs == 30
WriteSecs == 1

Timeouts_default ==
    [keep_alive |-> Some(KeepAliveSecs), read |-> Some(ReadSecs),
     write |-> Some(WriteSecs)]

\* Iron::new(handler): the timeouts of the new server.
Iron_new == [timeouts |-> Timeouts_default]

NoHist == [ops |-> << >>, everSet |-> {}]

\* The context operations a handler makes during one handle() call.
HandlerOps ==
    { << >>, <<[kind |-> "set", type |-> "T1", value |-> "a"]>> }

RECURSIVE CtxApplyAll(_, _)
CtxApplyAll(q, ops) ==
    IF ops = << >> THEN q ELSE CtxApplyAll(CtxApply(q, Head(ops)), Tail(ops))

NoMade == [ok |-> FALSE, err |-> None, req |-> NoRequest]

\* The state after Iron::new(handler), before http() is called.
Init ==
    /\ addr = NoAddr
    /\ timeouts = Iron_new.timeouts
    /\ hist = NoHist
    /\ req = [c \in Conns |-> NoRequest]
    /\ phase = [c \in Conns |-> "Idle"]
    /\ raw = [c \in Conns |-> NoRaw]
    /\ made = [c \in Conns |-> NoMade]
    /\ hres = [c \in Conns |-> NoResult]
    /\ calls = [c \in Conns |-> 0]
    /\ out = [c \in Conns |-> NoResponse]
    /\ sent = [c \in Conns |-> << >>]
    /\ logged = [c \in Conns |-> << >>]
    /\ accepted = 0

\* Iron::http(self, addr): the server is bound to addr and spawned.
Start ==
    /\ addr = NoAddr
    /\ addr' \in LocalAddrs
    /\ UNCHANGED <<phase, raw, made, req, hres, calls, out, sent, logged,
                   accepted, timeouts, hist>>

\* Server::bind(&addr).serve(..): the transport accepts a connection (a new
\* one, or a kept-alive one whose previous response was handed over).
Accept(c) ==
    /\ addr # NoAddr
    /\ phase[c] \in {"Idle", "Closed"}
    /\ accepted < MaxRequests
    /\ accepted' = accepted + 1
    /\ phase' = [phase EXCEPT ![c] = "Accepted"]
    /\ raw' = [raw EXCEPT ![c] = NoRaw]
    /\ made' = [made EXCEPT ![c] = NoMade]
    /\ hres' = [hres EXCEPT ![c] = NoResult]
    /\ calls' = [calls EXCEPT ![c] = 0]
    /\ out' = [out EXCEPT ![c] = NoResponse]
    /\ sent' = [sent EXCEPT ![c] = << >>]
    /\ logged' = [logged EXCEPT ![c] = << >>]
    /\ UNCHANGED <<addr, req, timeouts, hist>>

\* service_fn(|req: HttpRequest<hyper::Body>| ..): the transport's parser
\* calls the closure with the raw request.
Deliver(c) ==
    /\ phase[c] = "Accepted"
    /\ \E r \in RawRequests : raw' = [raw EXCEPT ![c] = r]
    /\ phase' = [phase EXCEPT ![c] = "Resolving"]
    /\ UNCHANGED <<addr, made, req, hres, calls, out, sent, logged, accepted,
                   timeouts, hist>>

\* The Err arm passing the error on, which ends the server, instead of
\* answering.
Resolve_fatal(c) ==
    /\ phase[c] = "Resolving"
    /\ LET m == from_http(raw[c], addr, Protocol_Http)
       IN  /\ made' = [made EXCEPT ![c] = m]
           /\ req' = [req EXCEPT ![c] = m.req]
           /\ IF m.ok
              THEN /\ phase' = [phase EXCEPT ![c] = "Dispatching"]
                   /\ UNCHANGED <<out, logged, addr>>
              ELSE /\ logged' = [logged EXCEPT ![c] =
                          Append(@, [msg |-> "Error creating request",
                                     request |-> NoDebug, error |-> m.err])]
                   /\ out' = [out EXCEPT ![c] = bad_request]
                   /\ phase' = [phase EXCEPT ![c] = "Responding"]
                   /\ addr' = NoAddr
    /\ UNCHANGED <<raw, hres, calls, sent, accepted, timeouts, hist>>

\* match Request::from_http(req, addr, &Protocol(_Protocol::Http)): Ok goes
\* on to the handler; Err logs and answers bad_request().
Resolve(c) ==
    /\ phase[c] = "Resolving"
    /\ LET m == from_http(raw[c], addr, Protocol_Http)
       IN  /\ made' = [made EXCEPT ![c] = m]
           /\ req' = [req EXCEPT ![c] = m.req]
           /\ IF m.ok
              THEN /\ phase' = [phase EXCEPT ![c] = "Dispatching"]
                   /\ UNCHANGED <<out, logged>>
              ELSE /\ logged' = [logged EXCEPT ![c] =
                          Append(@, [msg |-> "Error creating request",
                                     request |-> NoDebug, error |-> m.err])]
                   /\ out' = [out EXCEPT ![c] = bad_request]
                   /\ phase' = [phase EXCEPT ![c] = "Responding"]
    /\ UNCHANGED <<addr, raw, hres, calls, sent, accepted, timeouts, hist>>

\* self.handler.handle(&mut req).unwrap_or_else(|e| {error!(..); e.response}):
\* the response the handler's result selects.
unwrap_or_else(h) == h.response

\* The closure writing the selected response back.
http_res_write_back(res) == res

\* let mut http_res = HttpResponse::new(hyper::Body::from("")); Ok(http_res):
\* the response the closure returns once `res` is selected (write_back is
\* commented out).
http_res(res) == HttpResponse_new(EmptyBody)

\* The Ok arm calling the handler a second time when its first call fails.
Dispatch_retry(c) ==
    /\ phase[c] = "Dispatching"
    /\ \E h \in HandlerResults, ops \in HandlerOps :
         /\ req' = [req EXCEPT ![c] = CtxApplyAll(@, ops)]
         /\ hres' = [hres EXCEPT ![c] = h]
         /\ calls' = [calls EXCEPT ![c] = IF h.ok THEN @ + 1 ELSE @ + 2]
         /\ logged' = [logged EXCEPT ![c] =
                IF h.ok THEN @
                ELSE Append(@, [msg |-> "Error handling",
                                request |-> Request_fmt(req'[c]),
                                error |-> h.error])]
         /\ out' = [out EXCEPT ![c] = http_res(unwrap_or_else(h))]
    /\ phase' = [phase EXCEPT ![c] = "Responding"]
    /\ UNCHANGED <<addr, raw, made, sent, accepted, timeouts, hist>>

\* The Ok arm of the closure: the handler is called once with &mut req (and
\* may write to its context), a failure is logged with the request's Debug
\* form, and the response is built.
Dispatch(c) ==
    /\ phase[c] = "Dispatching"
    /\ \E h \in HandlerResults, ops \in HandlerOps :
         /\ req' = [req EXCEPT ![c] = CtxApplyAll(@, ops)]
         /\ hres' = [hres EXCEPT ![c] = h]
         /\ calls' = [calls EXCEPT ![c] = @ + 1]
         /\ logged' = [logged EXCEPT ![c] =
                IF h.ok THEN @
                ELSE Append(@, [msg |-> "Error handling",
                                request |-> Request_fmt(req'[c]),
                                error |-> h.error])]
         /\ out' = [out EXCEPT ![c] = http_res(unwrap_or_else(h))]
    /\ phase' = [phase EXCEPT ![c] = "Responding"]
    /\ UNCHANGED <<addr, raw, made, sent, accepted, timeouts, hist>>

\* The closure ending without its return value reaching the transport.
Respond_lost(c) ==
    /\ phase[c] = "Responding"
    /\ phase' = [phase EXCEPT ![c] = "Closed"]
    /\ req' = [req EXCEPT ![c] = NoRequest]
    /\ UNCHANGED <<addr, raw, made, hres, calls, out, sent, logged, accepted,
                   timeouts, hist>>

\* The closure's return value is handed to the transport for writing; its
\* Request is dropped with it.
Respond(c) ==
    /\ phase[c] = "Responding"
    /\ sent' = [sent EXCEPT ![c] = Append(@, out[c])]
    /\ phase' = [phase EXCEPT ![c] = "Closed"]
    /\ req' = [req EXCEPT ![c] = NoRequest]
    /\ UNCHANGED <<addr, raw, made, hres, calls, out, logged, accepted,
                   timeouts, hist>>

Next ==
    \/ Start
    \/ \E c \in Conns :
        \/ Accept(c)
        \/ Deliver(c)
        \/ Resolve(c)
        \/ Dispatch(c)
        \/ Respond(c)

Spec == Init /\ [][Next]_vars

\* The closure is synchronous: once called with a request it runs to its
\* return, and hyper hands the returned response to the connection.
FairSpec ==
    Spec /\ \A c \in Conns :
        WF_vars(Resolve(c)) /\ WF_vars(Dispatch(c)) /\ WF_vars(Respond(c))

\* ------------------------------------------- a handler's context operations

\* The connection whose handler is followed operation by operation.
CtxConn == "c1"

CtxRaw ==
    [uri |-> [form |-> "absolute", scheme |-> "http",
              host |-> "www.rust-lang.org", port |-> None, path |-> "/a",
              query |-> None],
     method |-> "GET", version |-> Http11, host |-> NoHost]

CtxAddr == [family |-> "V4", ip |-> "127.0.0.1", port |-> "3000"]

\* The server has called the handler with the Request made from CtxRaw.
CtxInit ==
    /\ addr = CtxAddr
    /\ timeouts = Iron_new.timeouts
    /\ hist = NoHist
    /\ phase = [c \in Conns |-> IF c = CtxConn THEN "Dispatching" ELSE "Idle"]
    /\ raw = [c \in Conns |-> IF c = CtxConn THEN CtxRaw ELSE NoRaw]
    /\ made = [c \in Conns |->
                IF c = CtxConn THEN from_http(CtxRaw, CtxAddr, Protocol_Http)
                ELSE NoMade]
    /\ req = [c \in Conns |->
                IF c = CtxConn
                THEN from_http(CtxRaw, CtxAddr, Protocol_Http).req
                ELSE NoRequest]
    /\ hres = [c \in Conns |-> NoResult]
    /\ calls = [c \in Conns |-> 0]
    /\ out = [c \in Conns |-> NoResponse]
    /\ sent = [c \in Conns |-> << >>]
    /\ logged = [c \in Conns |-> << >>]
    /\ accepted = 1

\* The last MaxHist entries of a history.
LastOf(h) ==
    IF Len(h) > MaxHist THEN SubSeq(h, Len(h) - MaxHist + 1, Len(h)) ELSE h

\* The history after the handler's operation op: the operation, what it
\* returned and the context it found are remembered.
Remember(op) ==
    [ops |-> LastOf(Append(hist.ops,
                [kind |-> op.kind, type |-> op.type, value |-> op.value,
                 result |-> CtxResult(req[CtxConn], op),
                 before |-> extensions(req[CtxConn]),
                 setBefore |-> hist.everSet])),
     everSet |-> IF op.kind = "set" THEN hist.everSet \cup {op.type}
                 ELSE hist.everSet]

\* req.extensions_mut().insert::<T>(v)
CtxSet ==
    \E t \in ExtTypes, v \in ExtValues :
        LET op == [kind |-> "set", type |-> t, value |-> v]
        IN  /\ phase[CtxConn] = "Dispatching"
            /\ req' = [req EXCEPT ![CtxConn] = CtxApply(@, op)]
            /\ hist' = Remember(op)
            /\ UNCHANGED <<addr, phase, raw, made, hres, calls, out, sent,
                           logged, accepted, timeouts>>

\* req.extensions().get::<T>()
CtxGet ==
    \E t \in ExtTypes :
        LET op == [kind |-> "get", type |-> t, value |-> None]
        IN  /\ phase[CtxConn] = "Dispatching"
            /\ req' = [req EXCEPT ![CtxConn] = CtxApply(@, op)]
            /\ hist' = Remember(op)
            /\ UNCHANGED <<addr, phase, raw, made, hres, calls, out, sent,
                           logged, accepted, timeouts>>

\* req.extensions_mut().remove::<T>()
CtxRemove ==
    \E t \in ExtTypes :
        LET op == [kind |-> "remove", type |-> t, value |-> None]
        IN  /\ phase[CtxConn] = "Dispatching"
            /\ req' = [req EXCEPT ![CtxConn] = CtxApply(@, op)]
            /\ hist' = Remember(op)
            /\ UNCHANGED <<addr, phase, raw, made, hres, calls, out, sent,
                           logged, accepted, timeouts>>

CtxNext == CtxSet \/ CtxGet \/ CtxRemove

CtxSpec == CtxInit /\ [][CtxNext]_vars

\* ------------------------------------------------------------------ claims

\* The closure has called from_http for the connection's request.
Resolved(c) == phase[c] \in {"Dispatching", "Responding", "Closed"}

\* The closure has returned its response for the connection's request.
Returned(c) == phase[c] \in {"Responding", "Closed"}

\* C1: when the envelope was constructed and the handler returned Ok(res),
\* the response handed to the transport is exactly res (status, headers and
\* body).
C1_SuccessResponseVerbatim ==
    \A c \in Conns :
        (phase[c] = "Closed" /\ made[c].ok /\ hres[c].ok)
            => sent[c] = <<hres[c].response>>

\* C2: when the envelope was constructed and the handler returned
\* Err(failure), the response handed to the transport is the response the
\* failure carries (a 503 one for a handler failing with 503).
C2_FailureResponseCarried ==
    \A c \in Conns :
        (phase[c] = "Closed" /\ made[c].ok /\ ~hres[c].ok)
            => sent[c] = <<hres[c].response>>

\* C3: when from_http fails, the closure logs the error, answers status 400
\* with an empty body, and never calls the handler for that request.
C3_BadRequestOnConstructionFailure ==
    \A c \in Conns :
        (Returned(c) /\ ~made[c].ok)
            => /\ out[c].status = 400
               /\ out[c].body = ""
               /\ calls[c] = 0
               /\ hres[c] = NoResult
               /\ logged[c] = <<[msg |-> "Error creating request",
                                 request |-> NoDebug, error |-> made[c].err]>>
               /\ (phase[c] = "Closed" => sent[c] = <<out[c]>>)

C3_Witness ==
    \E c \in Conns :
        /\ phase[c] = "Closed"
        /\ ~made[c].ok
        /\ Len(sent[c]) = 1
        /\ sent[c][1].status = 400

\* One step of a connection's request through the closure.
OrderStep(c) ==
    phase'[c] # phase[c] =>
        \/ phase[c] \in {"Idle", "Closed"} /\ phase'[c] = "Accepted"
        \/ phase[c] = "Accepted" /\ phase'[c] = "Resolving"
        \/ phase[c] = "Resolving" /\ phase'[c] = "Dispatching" /\ made'[c].ok
        \/ phase[c] = "Resolving" /\ phase'[c] = "Responding" /\ ~made'[c].ok
        \/ phase[c] = "Dispatching" /\ phase'[c] = "Responding"
        \/ phase[c] = "Responding" /\ phase'[c] = "Closed"

\* C4: a request's processing moves only forwards through Accepted,
\* Resolving, Dispatching (skipped exactly when construction fails),
\* Responding, Closed; a response is handed to the transport exactly once,
\* on the step from Responding to Closed; and every request the closure is
\* called with eventually reaches Closed with that one response.
C4_Lifecycle ==
    /\ [][\A c \in Conns : OrderStep(c)]_vars
    /\ [](\A c \in Conns :
            Len(sent[c]) = IF phase[c] = "Closed" THEN 1 ELSE 0)
    /\ \A c \in Conns :
         (phase[c] = "Resolving") ~> (phase[c] = "Closed" /\ Len(sent[c]) = 1)

C4_Witness ==
    \E c, d \in Conns :
        /\ c # d
        /\ phase[c] = "Closed" /\ made[c].ok /\ Len(sent[c]) = 1
        /\ phase[d] = "Closed" /\ ~made[d].ok /\ Len(sent[d]) = 1

\* C5: the handler is called at most once per request: once when the
\* envelope was constructed, never otherwise, whatever the other
\* connection is doing.
C5_HandlerAtMostOnce ==
    \A c \in Conns :
        /\ calls[c] <= 1
        /\ Returned(c) => calls[c] = (IF made[c].ok THEN 1 ELSE 0)
        /\ ~Returned(c) => calls[c] = 0

C5_Witness ==
    \E c, d \in Conns :
        /\ c # d
        /\ phase[c] = "Responding" /\ made[c].ok /\ calls[c] = 1
        /\ Returned(d) /\ ~made[d].ok /\ calls[d] = 0

\* The URL the resolver is to build for an absolute-path target from the
\* Host header.
HostUrl(r, protocol) ==
    [scheme |-> Protocol_name(protocol), host |-> r.host.hostname,
     port |-> r.host.port, path |-> r.uri.path, query |-> r.uri.query]

\* C6: an absolute-path target with a Host header present resolves, at any
\* HTTP version, to scheme://host[:port]path from the protocol's name and
\* the header's hostname and optional port.
C6_HostHeaderUrl ==
    \A c \in Conns :
        (Resolved(c) /\ raw[c].uri.form = "origin" /\ raw[c].host # NoHost)
            => /\ made[c].ok
               /\ made[c].req.url = HostUrl(raw[c], Protocol_Http)

\* SocketAddr's IPv6 address in brackets.
Bracketed(ip) == CASE ip = "::1" -> "[::1]" [] OTHER -> ip

\* The URL the resolver is to build for an absolute-path target from the
\* local socket address.
LocalAddrUrl(r, a, protocol) ==
    [scheme |-> Protocol_name(protocol),
     host |-> IF a.family = "V6" THEN Bracketed(a.ip) ELSE a.ip,
     port |-> a.port, path |-> r.uri.path, query |-> r.uri.query]

\* C7: an absolute-path target at HTTP/1.0 with no Host header resolves to
\* scheme://ip:port path from the local socket address (an IPv6 address in
\* brackets).
C7_LocalAddrUrl ==
    \A c \in Conns :
        (Resolved(c) /\ raw[c].uri.form = "origin" /\ raw[c].host = NoHost
           /\ raw[c].version < Http11)
            => /\ made[c].ok
               /\ made[c].req.url = LocalAddrUrl(raw[c], addr, Protocol_Http)

\* C8: an absolute-path target at HTTP/1.1 or later with no Host header
\* fails with the MissingHost error, and no envelope is produced.
C8_MissingHost ==
    \A c \in Conns :
        (Resolved(c) /\ raw[c].uri.form = "origin" /\ raw[c].host = NoHost
           /\ raw[c].version >= Http11)
            => /\ ~made[c].ok
               /\ made[c].err = MissingHost
               /\ made[c].req = NoRequest

\* The URL an absolute URI denotes, component by component.
DirectUrl(u) ==
    [scheme |-> to_ascii_lowercase(u.scheme), host |-> u.host,
     port |-> u.port, path |-> IF u.path = "" THEN "/" ELSE u.path,
     query |-> u.query]

\* C9: for an absolute-URI target the resolved URL is the URL of that URI,
\* at any HTTP version and whatever the Host header says; a URI that does
\* not parse gives an error and no envelope.
C9_AbsoluteUriDirect ==
    \A c \in Conns :
        (Resolved(c) /\ raw[c].uri.form = "absolute")
            => IF to_ascii_lowercase(raw[c].uri.scheme) \in SpecialSchemes
               THEN made[c].ok /\ made[c].req.url = DirectUrl(raw[c].uri)
               ELSE ~made[c].ok /\ made[c].err # None
                    /\ made[c].req = NoRequest

C9_Witness ==
    \E c, d \in Conns :
        /\ c # d
        /\ Resolved(c) /\ raw[c].uri.form = "absolute" /\ made[c].ok
        /\ raw[c].host # NoHost
        /\ raw[c].host.hostname # made[c].req.url.host
        /\ Resolved(d) /\ raw[d].uri.form = "absolute" /\ ~made[d].ok

\* C10: a target in asterisk or authority form fails with
\* UnsupportedTarget, the client gets status 400, and no handler is called.
C10_UnsupportedTarget ==
    \A c \in Conns :
        (phase[c] = "Closed" /\ raw[c].uri.form \in {"asterisk", "authority"})
            => /\ ~made[c].ok
               /\ made[c].err = UnsupportedTarget
               /\ Len(sent[c]) = 1 /\ sent[c][1].status = 400
               /\ calls[c] = 0

\* The values a context holds under type t.
Stored(m, t) == {p[2] : p \in {x \in m : x[1] = t}}

\* C11: on one request's context, an operation on one type leaves every
\* other type's value as it was and a get<T> is not affected by an operation
\* on another type before it; set<T>(v) followed by get<T> returns v and
\* leaves one value under T; remove<T> followed by get<T> returns absent;
\* get<T> on a type never set returns absent.
C11_ContextOperations ==
    LET m == req[CtxConn].extensions
        n == Len(hist.ops)
    IN  /\ \A t \in ExtTypes : Cardinality(Stored(m, t)) <= 1
        /\ n >= 1 =>
             LET last == hist.ops[n]
             IN  /\ \A t \in ExtTypes \ {last.type} :
                       Stored(m, t) = Stored(last.before, t)
                 /\ last.kind = "set" => Stored(m, last.type) = {last.value}
                 /\ last.kind = "remove" => Stored(m, last.type) = {}
                 /\ last.kind = "get" => m = last.before
                 /\ (last.kind = "get" /\ last.type \notin last.setBefore)
                       => last.result = None
        /\ n >= 2 =>
             LET prev == hist.ops[n - 1]
                 last == hist.ops[n]
             IN  last.kind = "get" =>
                   /\ (prev.kind = "set" /\ prev.type = last.type)
                         => last.result = prev.value
                   /\ (prev.kind = "remove" /\ prev.type = last.type)
                         => last.result = None
                   /\ prev.type # last.type
                         => last.result \in Stored(prev.before, last.type)
                                              \cup (IF Stored(prev.before, last.type) = {}
                                                    THEN {None} ELSE {})

C11_Witness ==
    /\ Len(hist.ops) >= 2
    /\ hist.ops[Len(hist.ops) - 1].kind = "set"
    /\ hist.ops[Len(hist.ops)].kind = "get"
    /\ hist.ops[Len(hist.ops)].type = hist.ops[Len(hist.ops) - 1].type
    /\ hist.ops[Len(hist.ops)].result = hist.ops[Len(hist.ops) - 1].value
    /\ \E t \in ExtTypes \ {hist.ops[Len(hist.ops)].type} :
           Stored(req[CtxConn].extensions, t) # {}

\* C12: a constructed envelope carries the raw request's method, version
\* and headers and the local address given, and its context is empty when
\* the handler is called, whatever the other connection's request holds in
\* its own context.
C12_EnvelopeFields ==
    \A c \in Conns :
        /\ (Resolved(c) /\ made[c].ok) =>
              /\ made[c].req.method = raw[c].method
              /\ made[c].req.version = raw[c].version
              /\ made[c].req.headers = raw[c].host
              /\ made[c].req.local_addr = addr
              /\ made[c].req.extensions = {}
        /\ phase[c] = "Dispatching" =>
              /\ req[c] = made[c].req
              /\ \A t \in ExtTypes : TypeMap_get(extensions(req[c]), t) = None

C12_Witness ==
    \E c, d \in Conns :
        /\ c # d
        /\ phase[c] = "Dispatching" /\ extensions(req[c]) = {}
        /\ phase[d] = "Responding" /\ extensions(req[d]) # {}

\* The connection's request failed: no envelope, or a handler failure.
Failed(c) == Returned(c) /\ (~made[c].ok \/ ~hres[c].ok)

\* C14: no failure stops the server: it stays bound, a free connection can
\* still accept a request, a request in the closure can always take its next
\* step towards its response, every closed request has its one response,
\* and a step of one connection changes nothing of another connection's
\* request or response.
C14_NoFailureIsFatal ==
    /\ [][addr # NoAddr => addr' = addr]_vars
    /\ [](\A c \in Conns :
            /\ (addr # NoAddr /\ phase[c] \in {"Idle", "Closed"}
                  /\ accepted < MaxRequests) => ENABLED Accept(c)
            /\ phase[c] = "Resolving" => ENABLED Resolve(c)
            /\ phase[c] = "Dispatching" => ENABLED Dispatch(c)
            /\ phase[c] = "Responding" => ENABLED Respond(c)
            /\ phase[c] = "Closed" => Len(sent[c]) = 1)
    /\ [][\A c, d \in Conns :
            (c # d /\ phase'[d] # phase[d]) =>
                /\ phase'[c] = phase[c] /\ raw'[c] = raw[c]
                /\ made'[c] = made[c] /\ req'[c] = req[c]
                /\ hres'[c] = hres[c] /\ out'[c] = out[c]
                /\ sent'[c] = sent[c] /\ logged'[c] = logged[c]]_vars

C14_Witness ==
    \E c, d \in Conns :
        /\ c # d
        /\ accepted = MaxRequests
        /\ phase[d] = "Closed" /\ ~made[d].ok /\ Failed(d)
        /\ phase[c] = "Closed" /\ made[c].ok /\ Failed(c)
        /\ Len(sent[c]) = 1 /\ Len(sent[d]) = 1

\* C15: the server's timeouts are keep-alive 5 s, read 30 s and write 1 s,
\* each present, from Iron::new on: starting the server and handling
\* requests leave them as they are.
C15_DefaultTimeouts ==
    /\ timeouts.keep_alive = [some |-> TRUE, secs |-> 5]
    /\ timeouts.read = [some |-> TRUE, secs |-> 30]
    /\ timeouts.write = [some |-> TRUE, secs |-> 1]

C15_Witness ==
    /\ addr # NoAddr
    /\ accepted = MaxRequests
    /\ \A c \in Conns : phase[c] = "Closed"
    /\ timeouts.read.secs = 30

\* C16: when the handler fails, one record is logged for the request before
\* its response is handed to the transport, holding the request's URL and
\* method and the error; when the handler succeeds no record is logged.
C16_FailureLogged ==
    \A c \in Conns :
        (Returned(c) /\ made[c].ok) =>
            IF hres[c].ok
            THEN logged[c] = << >>
            ELSE /\ Len(logged[c]) = 1
                 /\ logged[c][1].msg = "Error handling"
                 /\ logged[c][1].request.url = made[c].req.url
                 /\ logged[c][1].request.method = raw[c].method
                 /\ logged[c][1].error = hres[c].error
                 /\ phase[c] = "Responding" => sent[c] = << >>

C16_Witness ==
    \E c \in Conns :
        /\ phase[c] = "Responding" /\ made[c].ok /\ ~hres[c].ok
        /\ sent[c] = << >>
        /\ Len(logged[c]) = 1
        /\ logged[c][1].request.method = "POST"

====
